---- MODULE Spec2Model ----
(***************************************************************************)
(* TheMovieDb info provider of CouchPotatoServer                           *)
(* (couchpotato/core/media/movie/providers/info/themoviedb.py).            *)
(*                                                                         *)
(* The provider is a synchronous client: each of its four event handlers   *)
(* (config, search, getInfo, isMovie) runs to completion, issuing zero or  *)
(* more blocking fetches.  One action models one whole handler call; the   *)
(* answers of the remote services are inputs of the action.  The event     *)
(* dispatcher calls one handler at a time and takes its result (Return)    *)
(* before it calls the next.                                               *)
(***************************************************************************)
EXTENDS Integers, Sequences, FiniteSets, TLC

VARIABLES
    configuration,  \* self.configuration (class default until config() stores one)
    api_key,        \* self.conf('api_key')
    call,           \* the handler call the dispatcher holds: idle, or the call that has returned
    requests,       \* outbound fetches issued by that call, in order
    fetches,        \* outbound fetches issued since start-up
    result,         \* what the call returned (a Raise when it propagated an exception)
    remote,         \* what the remote services answer to the fetches of the call
    lastGood        \* history: the payload of the latest configuration fetch that delivered one

vars == <<configuration, api_key, call, requests, fetches, result, remote, lastGood>>

\* Bounds of the model.
MaxHits == 2        \* hits in a search answer
MaxLimit == 3       \* largest limit passed to search()
MaxFetches == 4     \* fetches after which no further call is dispatched
MaxDateLen == 5     \* length of the generated release-date texts
MaxAlts == 2        \* alternative titles of a generated payload

(***************************************************************************)
(* Python values.  Every value carries its type tag, so that truthiness,   *)
(* str() and equality can be computed as Python computes them.             *)
(***************************************************************************)
None == [t |-> "None"]
Str(s) == [t |-> "str", s |-> s]
Num(n) == [t |-> "int", n |-> n]
Bool(b) == [t |-> "bool", b |-> b]
List(l) == [t |-> "list", l |-> l]
Dict(d) == [t |-> "dict", d |-> d]
\* An exception leaving a function (the kind is kept for the trace).
Raise(e) == [t |-> "raise", e |-> e]
\* A key that a JSON object does not have (used only to build objects).
Absent == [t |-> "absent"]
EmptyDict == Dict([k \in {} |-> None])

\* A JSON object from a record of optional fields: Absent fields are left out.
Obj(f) == Dict([k \in {x \in DOMAIN f : f[x] # Absent} |-> f[k]])

\* bool(v)
Truthy(v) ==
    CASE v.t = "None" -> FALSE
      [] v.t = "str" -> v.s # ""
      [] v.t = "int" -> v.n # 0
      [] v.t = "bool" -> v.b
      [] v.t = "list" -> v.l # <<>>
      [] v.t = "dict" -> DOMAIN v.d # {}
      [] OTHER -> TRUE

\* dict.get(k, default)
GetOr(v, k, default) == IF k \in DOMAIN v.d THEN v.d[k] ELSE default
Get(v, k) == GetOr(v, k, None)

\* str(v) and '%s' % v, for the values that reach them here
PyStr(v) ==
    CASE v.t = "str" -> v.s
      [] v.t = "None" -> "None"
      [] v.t = "int" -> ToString(v.n)
      [] OTHER -> "?"

\* s[:n]
Prefix(s, n) == IF Len(s) <= n THEN s ELSE SubSeq(s, 1, n)

\* str.lower(), on the letters the model's strings are made of
LowerChar(c) ==
    CASE c = "N" -> "n"
      [] c = "O" -> "o"
      [] c = "E" -> "e"
      [] c = "M" -> "m"
      [] OTHER -> c

RECURSIVE Lower(_)
Lower(s) == IF s = "" THEN "" ELSE LowerChar(SubSeq(s, 1, 1)) \o Lower(SubSeq(s, 2, Len(s)))

(***************************************************************************)
(* Helpers of the repository that the provider imports.                    *)
(***************************************************************************)
\* toUnicode(original): text stays as it is, anything else goes through unicode().
toUnicode(v) == Str(PyStr(v))

Digits == {"0", "1", "2", "3", "4", "5", "6", "7", "8", "9"}
DigitVal(c) ==
    CASE c = "0" -> 0 [] c = "1" -> 1 [] c = "2" -> 2 [] c = "3" -> 3 [] c = "4" -> 4
      [] c = "5" -> 5 [] c = "6" -> 6 [] c = "7" -> 7 [] c = "8" -> 8 [] c = "9" -> 9

RECURSIVE Strip(_)
Strip(s) ==
    IF s = "" THEN ""
    ELSE IF SubSeq(s, 1, 1) = " " THEN Strip(SubSeq(s, 2, Len(s)))
    ELSE IF SubSeq(s, Len(s), Len(s)) = " " THEN Strip(SubSeq(s, 1, Len(s) - 1))
    ELSE s

AllDigits(s) == s # "" /\ \A i \in 1..Len(s) : SubSeq(s, i, i) \in Digits

RECURSIVE DecVal(_)
DecVal(s) == IF s = "" THEN 0 ELSE 10 * DecVal(SubSeq(s, 1, Len(s) - 1)) + DigitVal(SubSeq(s, Len(s), Len(s)))

\* int(s) of a text: blanks around it, one optional sign, decimal digits.
IntParses(s) ==
    LET u == Strip(s)
        body == IF u # "" /\ SubSeq(u, 1, 1) \in {"-", "+"} THEN SubSeq(u, 2, Len(u)) ELSE u
    IN AllDigits(body)

IntValue(s) ==
    LET u == Strip(s)
        neg == u # "" /\ SubSeq(u, 1, 1) = "-"
        body == IF u # "" /\ SubSeq(u, 1, 1) \in {"-", "+"} THEN SubSeq(u, 2, Len(u)) ELSE u
    IN IF neg THEN 0 - DecVal(body) ELSE DecVal(body)

\* tryInt(s, default): int(s), or the default when int() raises.
tryInt(v, default) == IF v.t = "str" /\ IntParses(v.s) THEN Num(IntValue(v.s)) ELSE default

(***************************************************************************)
(* The provider.                                                           *)
(***************************************************************************)
DefaultBaseUrl == "https://image.tmdb.org/t/p/"

\* The class attribute `configuration`.
DefaultConfiguration == Dict([images |-> Dict([secure_base_url |-> Str(DefaultBaseUrl)])])

\* isDisabled() that takes every key for one.
isDisabledNever(key) == FALSE

\* isDisabled(): no API key configured.
isDisabled(key) == key = ""

\* request(): the fetch is wrapped in try/except, a failure becomes None; a
\* return_key that the data holds selects that member ("" stands for no key).
request(resp, return_key) ==
    LET data == IF resp.t = "raise" THEN None ELSE resp
    IN IF Truthy(data) /\ return_key # "" /\ data.t = "dict" /\ return_key \in DOMAIN data.d
       THEN Get(data, return_key)
       ELSE data

\* The '%s_path' lookup and the '%s%s%s' formatting of getImage(); the except
\* branch (a configuration without images.secure_base_url) gives ''.
getImage(conf, movie, type, size) ==
    LET path == Get(movie, type \o "_path")
    IN IF "images" \in DOMAIN conf.d /\ conf.d["images"].t = "dict"
          /\ "secure_base_url" \in DOMAIN conf.d["images"].d
       THEN Str(PyStr(conf.d["images"].d["secure_base_url"]) \o size \o PyStr(path))
       ELSE Str("")

\* seq[1:5]
Slice1to5(l) == IF Len(l) < 2 THEN <<>> ELSE SubSeq(l, 2, IF Len(l) < 5 THEN Len(l) ELSE 5)

\* getMultImages(): backdrops 2..5 of the gallery, each through getImage().
getMultImages(conf, movie, type, size) ==
    LET gallery == GetOr(movie, "images", EmptyDict)
        all == IF gallery.t = "dict" THEN GetOr(gallery, type, List(<<>>)) ELSE Raise("AttributeError")
        picked == IF all.t = "list" THEN Slice1to5(all.l) ELSE <<>>
    IN List([i \in 1..Len(picked) |-> getImage(conf, picked[i], "file", size)])

\* getattr(obj, name, default) of a JSON-decoded value: dicts, lists, texts,
\* numbers and None have no attribute of that name, the default comes back.
getattr(obj, name, default) == default

\* The year text without the 1900 test.
yearTextKeeps1900(release_date) ==
    LET year == Prefix(PyStr(IF Truthy(release_date) THEN release_date ELSE Str("")), 4)
    IN IF ~Truthy(release_date) \/ Lower(year) = "none" THEN None ELSE Str(year)

\* Lines 127-130: the year text of the release date, None for 1900 and 'none'.
yearText(release_date) ==
    LET year == Prefix(PyStr(IF Truthy(release_date) THEN release_date ELSE Str("")), 4)
    IN IF ~Truthy(release_date) \/ year = "1900" \/ Lower(year) = "none" THEN None ELSE Str(year)

\* The genre comprehension with its except branch.
genreNames(movie) ==
    LET g == GetOr(movie, "genres", List(<<>>))
    IN IF g.t = "list" /\ \A i \in 1..Len(g.l) : g.l[i].t = "dict"
       THEN List([i \in 1..Len(g.l) |-> Get(g.l[i], "name")])
       ELSE List(<<>>)

\* The cast loop: the last entry of a name wins.
castOf(movie) ==
    LET casts == GetOr(movie, "casts", EmptyDict)
        cast == GetOr(casts, "cast", List(<<>>))
    IN cast.l

castNames(cast) == {toUnicode(Get(cast[i], "name")).s : i \in 1..Len(cast)}

castLast(cast, n) ==
    cast[CHOOSE i \in 1..Len(cast) :
            /\ toUnicode(Get(cast[i], "name")).s = n
            /\ \A j \in (i + 1)..Len(cast) : toUnicode(Get(cast[j], "name")).s # n]

actorRoles(cast) == Dict([n \in castNames(cast) |-> toUnicode(Get(castLast(cast, n), "character"))])

actorImages(conf, cast) ==
    Dict([n \in castNames(cast) |-> getImage(conf, castLast(cast, n), "profile", "original")])

\* [x] if x else []
OneIfAny(x) == List(IF Truthy(x) THEN <<x>> ELSE <<>>)

\* dict((k, v) for k, v in movie_data.items() if v)
dropFalsy(d) == [k \in {x \in DOMAIN d : Truthy(d[x])} |-> d[k]]

InSeq(x, l) == \E i \in 1..Len(l) : l[i] = x

\* Line 174: which alternative titles are appended.
altAccepted(alt_name, titles) ==
    /\ Truthy(alt_name)
    /\ ~InSeq(alt_name, titles)
    /\ Lower(alt_name.s) # "none"
    /\ alt_name # None

RECURSIVE addAlternates(_, _)
addAlternates(titles, alts) ==
    IF alts = <<>> THEN titles
    ELSE LET alt_name == Get(Head(alts), "title")
         IN addAlternates(IF altAccepted(alt_name, titles) THEN Append(titles, alt_name) ELSE titles,
                          Tail(alts))

\* The movie_data literal of parseMovie(), before the falsy values are dropped.
movieData(conf, movie, extended) ==
    LET poster == getImage(conf, movie, "poster", "w154")
        poster_original == getImage(conf, movie, "poster", "original")
        backdrop_original == getImage(conf, movie, "backdrop", "original")
        extra_thumbs == IF extended THEN getMultImages(conf, movie, "backdrops", "original") ELSE List(<<>>)
        cast == IF extended THEN castOf(movie) ELSE <<>>
        images == Dict([poster |-> OneIfAny(poster),
                        poster_original |-> OneIfAny(poster_original),
                        backdrop_original |-> OneIfAny(backdrop_original),
                        actors |-> actorImages(conf, cast),
                        extra_thumbs |-> extra_thumbs])
    IN [type |-> Str("movie"),
        via_tmdb |-> Bool(TRUE),
        tmdb_id |-> Get(movie, "id"),
        titles |-> List(<<toUnicode(Get(movie, "title"))>>),
        original_title |-> toUnicode(Get(movie, "title")),
        images |-> images,
        imdb |-> Get(movie, "imdb_id"),
        runtime |-> Get(movie, "runtime"),
        released |-> Str(PyStr(Get(movie, "release_date"))),
        year |-> tryInt(yearText(Get(movie, "release_date")), None),
        plot |-> Get(movie, "overview"),
        genres |-> genreNames(movie),
        collection |-> getattr(Get(movie, "belongs_to_collection"), "name", None),
        actor_roles |-> actorRoles(cast)]

\* parseMovie(): None without a payload, KeyError when the record has lost its
\* original_title, else the record with the alternative titles appended.
parseMovie(conf, resp, extended) ==
    LET movie == request(resp, "")
    IN IF ~Truthy(movie) THEN None
       ELSE LET movie_data == dropFalsy(movieData(conf, movie, extended))
                alternate_titles == GetOr(GetOr(movie, "alternative_titles", EmptyDict), "titles", List(<<>>))
            IN IF "original_title" \notin DOMAIN movie_data THEN Raise("KeyError")
               ELSE LET titles == IF Truthy(movie_data["original_title"])
                                     /\ ~InSeq(movie_data["original_title"], movie_data["titles"].l)
                                  THEN Append(movie_data["titles"].l, movie_data["original_title"])
                                  ELSE movie_data["titles"].l
                    IN Dict([movie_data EXCEPT !["titles"] = List(addAlternates(titles, alternate_titles.l))])

\* The outbound calls, as the path and query that tell them apart.
configCall == "configuration"
searchCall(limit) == "search/movie?search_type=" \o (IF limit > 1 THEN "ngram" ELSE "phrase")
movieCall(id, extended) ==
    "movie/" \o PyStr(id) \o "?append_to_response=alternative_titles" \o (IF extended THEN ",images,casts" ELSE "")
isMovieCall(identifier, adding) ==
    "https://api.couchpota.to/ismovie/" \o PyStr(identifier) \o "/" \o (IF adding THEN "?adding=1" ELSE "")

\* config() that stores whatever the fetch gave.
configStoreAlways(old, fetched) == fetched

\* config(): what self.configuration is after the call.
configStore(old, fetched) == IF Truthy(fetched) THEN fetched ELSE old

\* The loop of search() over the hits: parse, count, stop at the limit.  An
\* exception of parseMovie() other than SyntaxError leaves the loop and search().
RECURSIVE searchLoop(_, _, _, _, _, _, _)
searchLoop(conf, hits, movies, limit, nr, results, log) ==
    IF hits = <<>> THEN [results |-> List(results), log |-> log]
    ELSE LET movie == Head(hits)
             parsed_movie == parseMovie(conf, movies[Get(movie, "id").n], FALSE)
             fetched == Append(log, movieCall(Get(movie, "id"), FALSE))
             found == IF Truthy(parsed_movie) THEN Append(results, parsed_movie) ELSE results
         IN IF parsed_movie.t = "raise" THEN [results |-> parsed_movie, log |-> fetched]
            ELSE IF nr + 1 = limit THEN [results |-> List(found), log |-> fetched]
            ELSE searchLoop(conf, Tail(hits), movies, limit, nr + 1, found, fetched)

\* search() once the provider is enabled.  parsed: the scanner gave a name_year
\* mapping (otherwise the .get on it raises inside the try and raw stays None).
searchRun(conf, limit, parsed, resp, movies) ==
    LET raw == IF parsed THEN request(resp, "results") ELSE None
        log == IF parsed THEN <<searchCall(limit)>> ELSE <<>>
    IN IF ~Truthy(raw) THEN [results |-> List(<<>>), log |-> log]
       ELSE IF raw.t # "list" THEN [results |-> Raise("AttributeError"), log |-> log]
       ELSE searchLoop(conf, raw.l, movies, limit, 0, <<>>, log)

\* isMovie() that takes an answer without is_movie, or no answer, for False.
isMovieResultFailClosed(data) ==
    IF data.t = "raise" THEN data
    ELSE IF Truthy(data) THEN GetOr(data, "is_movie", Bool(FALSE))
    ELSE Bool(FALSE)

\* isMovie() after its fetch: the fetch is not guarded, its exception leaves isMovie().
isMovieResult(data) ==
    IF data.t = "raise" THEN data
    ELSE IF Truthy(data) THEN GetOr(data, "is_movie", Bool(TRUE))
    ELSE Bool(TRUE)

\* getInfo(): result or {}
getInfoResult(parsed) == IF parsed.t = "raise" \/ Truthy(parsed) THEN parsed ELSE EmptyDict

(***************************************************************************)
(* Handlers.                                                               *)
(***************************************************************************)
Idle == [op |-> "idle"]

config(resp) ==
    /\ call = Idle
    /\ configuration' = configStore(configuration, request(resp, ""))
    /\ call' = [op |-> "config"]
    /\ requests' = <<configCall>>
    /\ fetches < MaxFetches
    /\ fetches' = fetches + 1
    /\ result' = None
    /\ remote' = resp
    /\ lastGood' = IF resp.t = "raise" \/ resp \in {None, List(<<>>), EmptyDict} THEN lastGood ELSE resp
    /\ UNCHANGED api_key

search(limit, parsed, resp, movies) ==
    LET run == searchRun(configuration, limit, parsed, resp, movies)
    IN /\ call = Idle
       /\ call' = [op |-> "search", limit |-> limit, parsed |-> parsed]
       /\ requests' = IF isDisabled(api_key) THEN <<>> ELSE run.log
       /\ fetches + Len(requests') <= MaxFetches
       /\ fetches' = fetches + Len(requests')
       /\ result' = IF isDisabled(api_key) THEN Bool(FALSE) ELSE run.results
       /\ remote' = IF isDisabled(api_key) \/ ~parsed THEN None
                    ELSE [t |-> "search", raw |-> resp, movies |-> movies]
       /\ UNCHANGED <<configuration, api_key, lastGood>>

getInfo(identifier, extended, resp) ==
    /\ call = Idle
    /\ call' = [op |-> "getInfo", identifier |-> identifier, extended |-> extended]
    /\ requests' = IF ~Truthy(identifier) THEN <<>> ELSE <<movieCall(identifier, extended)>>
    /\ fetches + Len(requests') <= MaxFetches
    /\ fetches' = fetches + Len(requests')
    /\ result' = IF ~Truthy(identifier) THEN EmptyDict
                 ELSE getInfoResult(parseMovie(configuration, resp, extended))
    /\ remote' = IF ~Truthy(identifier) THEN None ELSE resp
    /\ UNCHANGED <<configuration, api_key, lastGood>>

isMovie(identifier, adding, resp) ==
    /\ call = Idle
    /\ call' = [op |-> "isMovie", identifier |-> identifier, adding |-> adding]
    /\ requests' = IF ~Truthy(identifier) THEN <<>> ELSE <<isMovieCall(identifier, adding)>>
    /\ fetches + Len(requests') <= MaxFetches
    /\ fetches' = fetches + Len(requests')
    /\ result' = IF ~Truthy(identifier) THEN None ELSE isMovieResult(resp)
    /\ remote' = IF ~Truthy(identifier) THEN None ELSE resp
    /\ UNCHANGED <<configuration, api_key, lastGood>>

\* The dispatcher takes the result of the call.
Return ==
    /\ call # Idle
    /\ call' = Idle
    /\ requests' = <<>>
    /\ result' = None
    /\ remote' = None
    /\ UNCHANGED <<configuration, api_key, fetches, lastGood>>

(***************************************************************************)
(* Inputs: arguments of the calls and answers of the remote services.      *)
(***************************************************************************)
ApiKeys == {"", "9b939aee0aaafc12"}
Identifiers == {None, Str(""), Str("tt0133093")}
Limits == 0..MaxLimit
HitIds == 1..MaxHits

\* getJsonData() raising, and its answers without data.
FetchFailure == Raise("IOError")
NoData == {None, List(<<>>), EmptyDict}

Titled(t) == Obj([title |-> t])

\* One catalog entry.
Movie(id, title, release_date, poster_path, backdrop_path, collection, alts, extra) ==
    Obj([id |-> id, title |-> title, release_date |-> release_date,
         poster_path |-> poster_path, backdrop_path |-> backdrop_path,
         belongs_to_collection |-> collection,
         alternative_titles |-> IF alts = Absent THEN Absent
                                ELSE Dict([titles |-> List([i \in 1..Len(alts.l) |-> Titled(alts.l[i])])]),
         imdb_id |-> IF extra THEN Str("tt0133093") ELSE Absent,
         runtime |-> IF extra THEN Num(136) ELSE Absent,
         overview |-> IF extra THEN Str("A hacker learns the truth.") ELSE Absent,
         genres |-> IF extra THEN List(<<Obj([id |-> Num(28), name |-> Str("Action")])>>) ELSE Absent,
         images |-> IF extra
                    THEN Dict([backdrops |-> List(<<Obj([file_path |-> Str("/b0.jpg")]),
                                                    Obj([file_path |-> Str("/b1.jpg")]),
                                                    Obj([aspect_ratio |-> Num(2)])>>)])
                    ELSE Absent,
         casts |-> IF extra
                   THEN Dict([cast |-> List(<<Obj([name |-> Str("Keanu Reeves"), character |-> Str("Neo"),
                                                   profile_path |-> Str("/k.jpg")]),
                                              Obj([name |-> Str("Carrie-Anne Moss")])>>)])
                   ELSE Absent])

Collection(name) == Obj([id |-> Num(2344), name |-> name])

\* The entries the handlers are driven with.
FullMovie(id) ==
    Movie(id, Str("Matrix"), Str("1999-03-31"), Str("/p.jpg"), Str("/b.jpg"),
          Collection(Str("The Matrix Collection")), List(<<Str("Matrix"), Str("None"), Str("Die Matrix")>>), TRUE)
BlankTitleMovie(id) ==
    Movie(id, Str(""), Str("1900-01-01"), Absent, Absent, Absent, Absent, FALSE)
BareMovie(id) ==
    Movie(id, Absent, Absent, Absent, Absent, Absent, Absent, FALSE)

MovieKinds == {"failure", "none", "full", "blank"}
MovieAnswer(id, kind) ==
    CASE kind = "failure" -> FetchFailure
      [] kind = "none" -> None
      [] kind = "full" -> FullMovie(Num(id))
      [] kind = "blank" -> BlankTitleMovie(Num(id))

LookupAnswers ==
    {FetchFailure} \cup NoData \cup {FullMovie(Num(603)), BlankTitleMovie(Num(603)), BareMovie(Num(603))}

\* Rankings: the hits of a search answer, best first, no id twice.
Rankings ==
    {r \in UNION {[1..n -> HitIds] : n \in 0..MaxHits} :
        \A i, j \in DOMAIN r : i # j => r[i] # r[j]}
Range(f) == {f[i] : i \in DOMAIN f}
SearchAnswer(r) ==
    Obj([page |-> Num(1), results |-> List([i \in 1..Len(r) |-> Obj([id |-> Num(r[i])])])])
MoviesOf(kinds) ==
    [i \in HitIds |-> IF i \in DOMAIN kinds THEN MovieAnswer(i, kinds[i]) ELSE None]

ErrorPayload == Obj([status_code |-> Num(34), status_message |-> Str("not found")])
SearchFailures == {FetchFailure, None, ErrorPayload}

CustomConfiguration ==
    Dict([images |-> Dict([secure_base_url |-> Str("https://cdn.tmdb.test/"),
                           base_url |-> Str("http://cdn.tmdb.test/")])])
ConfigAnswers == {FetchFailure, CustomConfiguration, ErrorPayload} \cup NoData

IsMovieAnswers ==
    {FetchFailure, Obj([is_movie |-> Bool(TRUE)]), Obj([is_movie |-> Bool(FALSE)]),
     Obj([is_movie |-> None]), Obj([status |-> Str("ok")])} \cup NoData

(***************************************************************************)
(* The provider under its event handlers.                                  *)
(***************************************************************************)
Init ==
    /\ configuration = DefaultConfiguration
    /\ api_key \in ApiKeys
    /\ call = Idle
    /\ requests = <<>>
    /\ fetches = 0
    /\ result = None
    /\ remote = None
    /\ lastGood = DefaultConfiguration

Next ==
    \/ \E resp \in ConfigAnswers : config(resp)
    \/ \E limit \in Limits, r \in Rankings :
          \E kinds \in [Range(r) -> MovieKinds] : search(limit, TRUE, SearchAnswer(r), MoviesOf(kinds))
    \/ \E limit \in Limits, parsed \in BOOLEAN, resp \in SearchFailures :
          search(limit, parsed, resp, MoviesOf(<<>>))
    \/ \E identifier \in Identifiers, extended \in BOOLEAN, resp \in LookupAnswers :
          getInfo(identifier, extended, resp)
    \/ \E identifier \in Identifiers, adding \in BOOLEAN, resp \in IsMovieAnswers :
          isMovie(identifier, adding, resp)
    \/ Return

Spec == Init /\ [][Next]_vars

(***************************************************************************)
(* parseMovie() over generated payloads: the payload that the catalog      *)
(* holds is drawn at the start, getInfo() looks it up.                     *)
(***************************************************************************)
DateChars == {"0", "1", "9", "-", " "}

RECURSIVE Texts(_)
Texts(n) ==
    IF n = 0 THEN {""}
    ELSE LET shorter == Texts(n - 1)
         IN shorter \cup {t \o c : t \in {x \in shorter : Len(x) = n - 1}, c \in DateChars}

DateTexts == Texts(MaxDateLen) \cup {"1999-03-31", "1900-01-01", "0000-00-00", "None", "none", "NONE-01"}
DateValues == {Absent, None} \cup {Str(t) : t \in DateTexts}

TitleValues == {Absent, None, Str(""), Str("Matrix"), Str("None"), Str("none")}
AltNames == {None, Str(""), Str("Matrix"), Str("Die Matrix"), Str("None"), Str("NONE")}
AltLists == {Absent} \cup {List(l) : l \in UNION {[1..n -> AltNames] : n \in 0..MaxAlts}}

PathValues(p) == {Absent, None, Str(p)}
CollectionValues ==
    {Absent, None, Collection(Str("The Matrix Collection")), Collection(Str("")), Collection(Absent)}

ParsePayloads ==
    {Movie(Num(603), Str("Matrix"), d, Absent, Absent, Absent, Absent, FALSE) : d \in DateValues}
    \cup {Movie(Num(603), t, Str("1999-03-31"), Str("/p.jpg"), Absent, Absent, alts, FALSE) :
            t \in TitleValues, alts \in AltLists}
    \cup {Movie(Num(603), Str("Matrix"), Str("1999-03-31"), p, b, c, Absent, extra) :
            p \in PathValues("/p.jpg"), b \in PathValues("/b.jpg"), c \in CollectionValues,
            extra \in BOOLEAN}

InitParse ==
    /\ configuration \in {DefaultConfiguration, CustomConfiguration, ErrorPayload}
    /\ lastGood = configuration
    /\ api_key = "9b939aee0aaafc12"
    /\ call = Idle
    /\ requests = <<>>
    /\ fetches = 0
    /\ result = None
    /\ remote \in ParsePayloads

NextParse == \E extended \in BOOLEAN : getInfo(Str("tt0133093"), extended, remote)

SpecParse == InitParse /\ [][NextParse]_vars

(***************************************************************************)
(* Properties.                                                             *)
(***************************************************************************)
Returned(op) == call # Idle /\ call.op = op
NoIdentifier == {None, Str("")}
IsObject(v) == v.t = "dict" /\ DOMAIN v.d # {}
Min(a, b) == IF a < b THEN a ELSE b

\* The ids of the hits of the search answer, in ranking order.
HitsAnswered == IF IsObject(remote.raw) /\ "results" \in DOMAIN remote.raw.d THEN [i \in 1..Len(remote.raw.d["results"].l) |->
                                                 remote.raw.d["results"].l[i].d["id"].n]
                ELSE <<>>

\* getInfo() has returned the record of a fetched payload.
RecordReturned == Returned("getInfo") /\ IsObject(remote) /\ IsObject(result)

\* C1: a call one of whose fetches raised returns its fallback and lets no
\* exception out: config keeps the configuration, getInfo gives {}, isMovie
\* gives True, search gives [] (when the search fetch raised, or the fetch of
\* every hit did).
C1_FetchFailureNeverEscapes ==
    /\ (Returned("config") /\ remote = FetchFailure) => (result = None /\ configuration = lastGood)
    /\ (Returned("getInfo") /\ remote = FetchFailure) => result = EmptyDict
    /\ (Returned("isMovie") /\ remote = FetchFailure) => result = Bool(TRUE)
    /\ (Returned("search") /\ remote # None) =>
          /\ remote.raw = FetchFailure => result = List(<<>>)
          /\ (HitsAnswered # <<>> /\ \A i \in 1..Len(HitsAnswered) : remote.movies[HitsAnswered[i]] = FetchFailure)
                => result = List(<<>>)

\* C2: an enabled search that returns has fetched exactly the first
\* min(limit, hits) hits, one after the other in ranking order, and returns at
\* most limit records, in the ranking order of their hits.
C2_SearchStopsAtLimit ==
    (Returned("search") /\ remote # None /\ result.t = "list") =>
        LET hits == HitsAnswered
            k == Min(call.limit, Len(hits))
            ids == [i \in 1..Len(result.l) |-> result.l[i].d["tmdb_id"].n]
        IN /\ requests = <<searchCall(call.limit)>> \o [i \in 1..k |-> movieCall(Num(hits[i]), FALSE)]
           /\ Len(result.l) <= call.limit
           /\ \A i, j \in 1..Len(ids) : i < j =>
                 \E a, b \in 1..k : a < b /\ hits[a] = ids[i] /\ hits[b] = ids[j]

\* C3: a call whose precondition fails (search without API key, getInfo or
\* isMovie without identifier) returns its fallback (False, {}, None) and
\* issues no fetch: the number of fetches stays what it was.
C3_PreconditionFailsNoFetch ==
    [][((call' # Idle /\ call'.op = "search" /\ api_key = "")
            => (result' = Bool(FALSE) /\ fetches' = fetches /\ requests' = <<>>))
       /\ ((call' # Idle /\ call'.op = "getInfo" /\ call'.identifier \in NoIdentifier)
            => (result' = EmptyDict /\ fetches' = fetches /\ requests' = <<>>))
       /\ ((call' # Idle /\ call'.op = "isMovie" /\ call'.identifier \in NoIdentifier)
            => (result' = None /\ fetches' = fetches /\ requests' = <<>>))]_vars

C3_Witness ==
    /\ Returned("search") /\ api_key = "" /\ result = Bool(FALSE)
    /\ fetches > 0 /\ requests = <<>>

\* C4: getInfo with an identifier returns a mapping whatever the lookup
\* fetch gave: a record when a payload came, {} when none came; never None,
\* never an exception.
C4_GetInfoAlwaysMapping ==
    (Returned("getInfo") /\ call.identifier \notin NoIdentifier) =>
        IF IsObject(remote) THEN IsObject(result) ELSE result = EmptyDict

\* C5: isMovie with an identifier returns False only when the answer holds
\* is_movie: false; it returns True when the answer is missing, empty or has
\* no is_movie member.
C5_IsMovieFailsOpen ==
    (Returned("isMovie") /\ call.identifier \notin NoIdentifier) =>
        /\ result = Bool(FALSE) =>
              (IsObject(remote) /\ "is_movie" \in DOMAIN remote.d /\ remote.d["is_movie"] = Bool(FALSE))
        /\ (remote \in NoData \/ (IsObject(remote) /\ "is_movie" \notin DOMAIN remote.d))
              => result = Bool(TRUE)

C5_Witness ==
    /\ Returned("isMovie") /\ call.identifier = Str("tt0133093")
    /\ remote = Obj([is_movie |-> Bool(FALSE)]) /\ result = Bool(FALSE)

\* C6: the stored configuration is the payload of the latest configuration
\* fetch that delivered one, the class default before any did; config()
\* returns without an exception.
C6_ConfigurationIsLastDelivered ==
    /\ configuration = lastGood
    /\ Returned("config") => result = None

C6_Witness ==
    /\ Returned("config") /\ (remote = FetchFailure \/ remote \in NoData)
    /\ configuration = CustomConfiguration

\* The release date of the payload looked up, as text ("" when missing).
DateLookedUp == PyStr(GetOr(remote, "release_date", Str("")))
DateIsText == GetOr(remote, "release_date", None).t \in {"str", "None"}

\* C7 as stated: the year is absent when the release date is missing, empty
\* or starts with 1900, and is otherwise present and the integer d[0:4].
C7_YearAsClaimed ==
    (RecordReturned /\ DateIsText) =>
        LET d == IF Get(remote, "release_date") = None THEN "" ELSE DateLookedUp
        IN IF d = "" \/ Prefix(d, 4) = "1900"
           THEN "year" \notin DOMAIN result.d
           ELSE /\ "year" \in DOMAIN result.d
                /\ IntParses(Prefix(d, 4))
                /\ result.d["year"] = Num(IntValue(Prefix(d, 4)))

\* C7, amended: the year is absent when the release date is missing, empty,
\* starts with 1900, or its first four characters are not an integer or are
\* the integer 0; otherwise it is present and is that integer. It is never 1900.
C7_YearOfReleaseDate ==
    (RecordReturned /\ DateIsText) =>
        LET d == IF Get(remote, "release_date") = None THEN "" ELSE DateLookedUp
            y == Prefix(d, 4)
        IN /\ IF d = "" \/ y = "1900" \/ ~IntParses(y) \/ IntValue(y) = 0
              THEN "year" \notin DOMAIN result.d
              ELSE "year" \in DOMAIN result.d /\ result.d["year"] = Num(IntValue(y))
           /\ "year" \in DOMAIN result.d => result.d["year"] # Num(1900)

C7_Witness ==
    /\ RecordReturned /\ DateIsText /\ Get(remote, "release_date") # None
    /\ Len(DateLookedUp) > 4 /\ Prefix(DateLookedUp, 4) = "1900"
    /\ "year" \notin DOMAIN result.d

\* C8: the record's collection is the name of the payload's
\* belongs_to_collection when that name is present and not empty; otherwise
\* the record has no collection.
C8_CollectionIsName ==
    RecordReturned =>
        LET c == Get(remote, "belongs_to_collection")
            name == IF c.t = "dict" THEN Get(c, "name") ELSE None
        IN IF name.t = "str" /\ name.s # ""
           THEN "collection" \in DOMAIN result.d /\ result.d["collection"] = name
           ELSE "collection" \notin DOMAIN result.d

\* The image sequence that the claim describes for one image field.
ImageClaimed(path, size) ==
    IF path = None THEN <<>>
    ELSE <<Str(configuration.d["images"].d["secure_base_url"].s \o size \o path.s)>>

\* C9: poster, poster_original and backdrop_original are empty when the
\* payload has no poster_path / backdrop_path, and hold the one URL
\* base_url + size + path when it has (under a configuration with a base URL).
C9_ImagesFromPaths ==
    (RecordReturned /\ "images" \in DOMAIN configuration.d) =>
        LET images == result.d["images"].d
        IN /\ images["poster"].l = ImageClaimed(Get(remote, "poster_path"), "w154")
           /\ images["poster_original"].l = ImageClaimed(Get(remote, "poster_path"), "original")
           /\ images["backdrop_original"].l = ImageClaimed(Get(remote, "backdrop_path"), "original")

\* C10: the titles of a record start with the original title, hold no text
\* twice and hold no "none" in any case.
C10_TitlesClean ==
    RecordReturned =>
        LET titles == result.d["titles"].l
        IN /\ titles # <<>> /\ titles[1] = result.d["original_title"]
           /\ \A i, j \in 1..Len(titles) : i # j => titles[i] # titles[j]
           /\ \A i \in 1..Len(titles) : Lower(titles[i].s) # "none"

====
